---- MODULE Spec2Model ----
(***************************************************************************)
(* Model of streamlit_app.py: one execution of main(), from the widgets'   *)
(* values to the end of the script run.  The remote batch service          *)
(* (ZhipuAI files / batches API) is the environment: each of its calls     *)
(* either raises or returns a value it chooses.                            *)
(***************************************************************************)
EXTENDS Integers, Sequences, FiniteSets, TLC

\* ---------------------------------------------------------------- bounds
MaxRows == 3       \* rows of the uploaded sheet
MaxPolls == 5      \* polls counts the status queries exactly below this, and stops there
MaxLines == 2      \* result lines the remote service returns

\* ------------------------------------------------------- JSON values
\* What json.loads returns: a dict (ordered members), a list, a str or None.
JObj(members) == [kind |-> "object", str |-> "", members |-> members]
JArr(items) == [kind |-> "array", str |-> "", members |-> items]
JStr(s) == [kind |-> "string", str |-> s, members |-> << >>]
JNull == [kind |-> "null", str |-> "", members |-> << >>]

\* Python truth value of a JSON value (the test of `if data['children']:`).
Truthy(v) ==
    CASE v.kind = "object" -> Len(v.members) > 0
      [] v.kind = "array" -> Len(v.members) > 0
      [] v.kind = "string" -> v.str # ""
      [] OTHER -> FALSE

\* `key in d` and `d[key]` for a dict d.
HasKey(d, key) == d.kind = "object" /\ \E i \in 1..Len(d.members) : d.members[i][1] = key
GetKey(d, key) == d.members[CHOOSE i \in 1..Len(d.members) : d.members[i][1] = key][2]

\* The exception data[key] raises, "" when it raises none.
SubscriptError(d, key) ==
    IF d.kind = "object" THEN (IF HasKey(d, key) THEN "" ELSE "KeyError")
    ELSE "TypeError"

\* A well-formed node {description, children}.
Node(desc, children) == JObj(<< <<"description", JStr(desc)>>, <<"children", children>> >>)
NoChildren == JObj(<< >>)

\* ------------------------------------------- format_classification_system
Raised(err) == [ok |-> FALSE, err |-> err, lines |-> << >>]
Returned(lines) == [ok |-> TRUE, err |-> "", lines |-> lines]

RECURSIVE format_classification_system(_, _, _)
RECURSIVE FormatItems(_, _, _, _, _)

\* The loop body over system_dict.items(), from member i on, result so far in acc.
FormatItems(system_dict, level, prefix, i, acc) ==
    IF i > Len(system_dict.members) THEN Returned(acc)
    ELSE LET label == system_dict.members[i][1]
             data == system_dict.members[i][2]
             indent == level - 1
             branch == IF level > 1 THEN "|- " ELSE ""
         IN  IF SubscriptError(data, "description") # ""
             THEN Raised(SubscriptError(data, "description"))
             ELSE LET line == [indent |-> indent, branch |-> branch, label |-> label,
                               description |-> GetKey(data, "description")]
                  IN  IF SubscriptError(data, "children") # ""
                      THEN Raised(SubscriptError(data, "children"))
                      ELSE IF Truthy(GetKey(data, "children"))
                      THEN LET child_prefix == prefix \o (IF level > 1 THEN <<"|  ">> ELSE <<"  ">>)
                               sub == format_classification_system(
                                          GetKey(data, "children"), level + 1, child_prefix)
                           IN  IF sub.ok
                               THEN FormatItems(system_dict, level, prefix, i + 1,
                                                Append(acc, line) \o sub.lines)
                               ELSE sub
                      ELSE FormatItems(system_dict, level, prefix, i + 1, Append(acc, line))

format_classification_system(system_dict, level, prefix) ==
    IF system_dict.kind # "object" THEN Raised("AttributeError")
    ELSE FormatItems(system_dict, level, prefix, 1, << >>)

\* ------------------------------------------------ build_path_mapping
\* paths[label] = entry: replaces the entry of an existing key in place, appends a new one.
DictSet(paths, entry) ==
    IF \E i \in 1..Len(paths) : paths[i].label = entry.label
    THEN [i \in 1..Len(paths) |-> IF paths[i].label = entry.label THEN entry ELSE paths[i]]
    ELSE Append(paths, entry)

RECURSIVE DictUpdate(_, _)
\* paths.update(other)
DictUpdate(paths, other) ==
    IF other = << >> THEN paths
    ELSE DictUpdate(DictSet(paths, Head(other)), Tail(other))

RECURSIVE build_path_mapping(_, _)
RECURSIVE PathItems(_, _, _, _)

PathItems(system_dict, current_path, i, paths) ==
    IF i > Len(system_dict.members) THEN Returned(paths)
    ELSE LET label == system_dict.members[i][1]
             data == system_dict.members[i][2]
             current == current_path \o <<label>>
         IN  IF SubscriptError(data, "description") # ""
             THEN Raised(SubscriptError(data, "description"))
             ELSE LET set == DictSet(paths, [label |-> label, path |-> current,
                                             description |-> GetKey(data, "description")])
                  IN  IF SubscriptError(data, "children") # ""
                      THEN Raised(SubscriptError(data, "children"))
                      ELSE IF Truthy(GetKey(data, "children"))
                      THEN LET sub == build_path_mapping(GetKey(data, "children"), current)
                           IN  IF sub.ok
                               THEN PathItems(system_dict, current_path, i + 1,
                                              DictUpdate(set, sub.lines))
                               ELSE sub
                      ELSE PathItems(system_dict, current_path, i + 1, set)

build_path_mapping(system_dict, current_path) ==
    IF system_dict.kind # "object" THEN Raised("AttributeError")
    ELSE PathItems(system_dict, current_path, 1, << >>)

\* ---------------------------------------------------- create_batch_jsonl
\* str(n): the decimal digits of a natural number.
DigitChar(d) ==
    CASE d = 0 -> "0" [] d = 1 -> "1" [] d = 2 -> "2" [] d = 3 -> "3" [] d = 4 -> "4"
      [] d = 5 -> "5" [] d = 6 -> "6" [] d = 7 -> "7" [] d = 8 -> "8" [] d = 9 -> "9"

RECURSIVE IntToStr(_)
IntToStr(n) == IF n < 10 THEN <<DigitChar(n)>> ELSE IntToStr(n \div 10) \o <<DigitChar(n % 10)>>

\* An off-by-one numbering of the rows.
CustomIdOneBased(idx) == <<"request-">> \o IntToStr(idx + 1)

\* f"request-{idx}"
CustomId(idx) == <<"request-">> \o IntToStr(idx)

\* df.iterrows(): the rows in order, each with its index label.  pd.read_excel
\* gives the frame a RangeIndex, so the label of a row is its 0-based position.
Iterrows(df) == [i \in 1..Len(df) |-> [idx |-> i - 1, abstract |-> df[i]]]

\* The request written for one row.  `row` is not in the payload: it records
\* which row of the frame the loop was at when the request was written.
Request(r, system_description) ==
    [custom_id |-> CustomId(r.idx), method |-> "POST", url |-> "/v4/chat/completions",
     model |-> "glm-4", system_description |-> system_description,
     abstract |-> r.abstract, row |-> r.idx]

create_batch_jsonl(df, classification_system) ==
    LET fmt == format_classification_system(classification_system, 1, << >>)
        path_mapping == build_path_mapping(classification_system, << >>)
    IN  IF ~fmt.ok THEN fmt
        ELSE IF ~path_mapping.ok THEN path_mapping
        ELSE Returned([i \in 1..Len(df) |-> Request(Iterrows(df)[i], fmt.lines)])

\* ------------------------------------------------------- result table
\* Line 280 calls a name the module neither defines nor imports.
process_batch_results(text) == Raised("NameError")

\* pd.DataFrame({'abstract': df[...], 'result': results}): the list is paired
\* with the column by position, and a list of another length is a ValueError.
DataFrame(column, results) ==
    IF Len(results) # Len(column) THEN Raised("ValueError")
    ELSE Returned([i \in 1..Len(column) |-> [abstract |-> column[i], result |-> results[i]]])

\* ---------------------------------------------------------- the inputs
\* Cell texts: a blank cell and a real abstract (with leading white space).
Texts == {<<" ">>, <<" ", "a">>}

RECURSIVE SeqsUpTo(_, _)
SeqsUpTo(S, n) ==
    IF n = 0 THEN {<< >>}
    ELSE LET shorter == SeqsUpTo(S, n - 1)
         IN  shorter \cup {Append(q, x) : q \in {t \in shorter : Len(t) = n - 1}, x \in S}

Leaf == Node("blade-based", NoChildren)
Tree == JObj(<< <<"Saws", Node("cutting tools", JObj(<< <<"Circular Saw", Leaf>> >>))>> >>)

\* Documents a user may upload as the taxonomy configuration.
TaxonomyDocs ==
    { Tree,
      JObj(<< >>),
      JArr(<< >>),
      JObj(<< <<"Saws", JObj(<< <<"children", NoChildren>> >>)>> >>),
      JObj(<< <<"Saws", Node("cutting tools",
                  JObj(<< <<"Circular Saw", JObj(<< <<"children", NoChildren>> >>)>> >>))>> >>),
      JObj(<< <<"Saws", JObj(<< <<"description", JStr("cutting tools")>> >>)>> >>),
      JObj(<< <<"Saws", Node("cutting tools", JNull)>> >>),
      JObj(<< <<"Saws", Node("cutting tools", JArr(<< >>))>> >>),
      JObj(<< <<"Saws", Node("cutting tools", JStr("Circular Saw"))>> >>) }

\* config_file: nothing uploaded, bytes json.loads rejects, or a document.
ConfigFiles ==
    {[kind |-> "none", doc |-> JNull], [kind |-> "invalid", doc |-> JNull]}
        \cup {[kind |-> "json", doc |-> d] : d \in TaxonomyDocs}

\* What the form of create_classification_system returns.
FormTrees == {JObj(<< >>), Tree}

\* uploaded_file: nothing, a file read_excel rejects, a sheet without the
\* abstract column, or a sheet with it.
UploadedFiles ==
    {[kind |-> k, rows |-> << >>] : k \in {"none", "unreadable", "no_column"}}
        \cup {[kind |-> "sheet", rows |-> r] : r \in SeqsUpTo(Texts, MaxRows)}

\* Line 268: the statuses on which the loop gives up.
FailureStatuses == {"failed", "expired", "cancelled"}
\* What a status query may return.
Statuses == {"queued", "running", "completed"} \cup FailureStatuses
FileIds == {"file-1", "file-2"}

VARIABLES
    pc,                    \* where main() is
    api_key, config_file, form, uploaded_file, button,   \* the widgets' values
    classification_system, \* JNull is None
    saved,                 \* st.session_state.classification_system
    df,
    jsonl_content,         \* the requests written, one per line
    localFiles,            \* files of the working directory
    payloadHandle,         \* the handle of open("temp_batch.jsonl", "rb")
    file_id, batch_id,
    remoteFiles, jobs,     \* the service: files uploaded, jobs created
    uploads, polls, fetches, sleepsSincePoll,   \* calls of files.create, retrieve, files.content
    status, output_file_id,
    results,               \* the lines of the downloaded output
    result_df,             \* built is FALSE until line 283 has run
    outcome, error

widgets == <<api_key, config_file, form, uploaded_file, button>>
vars == <<pc, widgets, classification_system, saved, df, jsonl_content, localFiles,
          payloadHandle, file_id, batch_id, remoteFiles, jobs, uploads, polls,
          fetches, sleepsSincePoll, status, output_file_id, results, result_df, outcome, error>>

Init ==
    /\ pc = "load"
    /\ api_key \in {"", "key"}
    /\ config_file \in ConfigFiles
    /\ form \in (IF config_file.kind = "none" THEN FormTrees ELSE {JObj(<< >>)})
    /\ uploaded_file \in UploadedFiles
    /\ button \in {"none", "save", "start"}
    /\ classification_system = JNull
    /\ saved = [set |-> FALSE, value |-> JNull]
    /\ df = << >>
    /\ jsonl_content = << >>
    /\ localFiles = {}
    /\ payloadHandle = "none"
    /\ file_id = "none"
    /\ batch_id = "none"
    /\ remoteFiles = {}
    /\ jobs = << >>
    /\ uploads = 0
    /\ polls = 0
    /\ fetches = 0
    /\ sleepsSincePoll = 0
    /\ status = "none"
    /\ output_file_id = "none"
    /\ results = << >>
    /\ result_df = [built |-> FALSE, rows |-> << >>]
    /\ outcome = ""
    /\ error = ""

\* ------------------------------------------------------------ the steps
\* The script run ends: a return, the end of main(), or the handler of line 304.
End(how, exception) ==
    /\ pc' = "done"
    /\ outcome' = how
    /\ error' = exception

\* Lines 187-198: the taxonomy of this run.
LoadedTaxonomy(cf, entered) ==
    IF cf.kind = "none" THEN entered
    ELSE IF cf.kind = "invalid" THEN JNull
    ELSE IF format_classification_system(cf.doc, 1, << >>).ok THEN cf.doc
    ELSE JNull

LoadTaxonomy ==
    /\ pc = "load"
    /\ classification_system' = LoadedTaxonomy(config_file, form)
    /\ pc' = "save"
    /\ UNCHANGED <<widgets, saved, df, jsonl_content, localFiles, payloadHandle, file_id,
                   batch_id, remoteFiles, jobs, uploads, polls, fetches, sleepsSincePoll, status,
                   output_file_id, results, result_df, outcome, error>>

\* Lines 201-213: the save button.
SaveTaxonomy ==
    /\ pc = "save"
    /\ saved' = IF button = "save" /\ Truthy(classification_system)
                THEN [set |-> TRUE, value |-> classification_system]
                ELSE saved
    /\ pc' = "read"
    /\ UNCHANGED <<widgets, classification_system, df, jsonl_content, localFiles,
                   payloadHandle, file_id, batch_id, remoteFiles, jobs, uploads, polls, fetches,
                   sleepsSincePoll, status, output_file_id, results, result_df, outcome,
                   error>>

\* Lines 218-231: the sheet is read and the start button tested.
ReadExcel ==
    /\ pc = "read"
    /\ IF uploaded_file.kind = "none" \/ api_key = "" THEN End("idle", "") /\ df' = df
       ELSE IF uploaded_file.kind = "unreadable" THEN End("error", "ReadError") /\ df' = df
       ELSE IF uploaded_file.kind = "no_column" THEN End("no_column", "") /\ df' = df
       ELSE /\ df' = uploaded_file.rows
            /\ IF button = "start"
               THEN pc' = "build" /\ UNCHANGED <<outcome, error>>
               ELSE End("idle", "")
    /\ UNCHANGED <<widgets, classification_system, saved, jsonl_content, localFiles,
                   payloadHandle, file_id, batch_id, remoteFiles, jobs, uploads, polls, fetches,
                   sleepsSincePoll, status, output_file_id, results, result_df>>

\* Line 235.
CreateBatch ==
    /\ pc = "build"
    /\ LET built == create_batch_jsonl(df, classification_system)
       IN  IF built.ok
           THEN /\ jsonl_content' = built.lines
                /\ pc' = "write"
                /\ UNCHANGED <<outcome, error>>
           ELSE /\ End("error", built.err)
                /\ UNCHANGED jsonl_content
    /\ UNCHANGED <<widgets, classification_system, saved, df, localFiles, payloadHandle,
                   file_id, batch_id, remoteFiles, jobs, uploads, polls, fetches, sleepsSincePoll,
                   status, output_file_id, results, result_df>>

\* Lines 238-239: the payload is written to the working directory.
WriteTempFile ==
    /\ pc = "write"
    /\ localFiles' = localFiles \cup {"temp_batch.jsonl"}
    /\ pc' = "upload"
    /\ UNCHANGED <<widgets, classification_system, saved, df, jsonl_content, payloadHandle,
                   file_id, batch_id, remoteFiles, jobs, uploads, polls, fetches, sleepsSincePoll,
                   status, output_file_id, results, result_df, outcome, error>>

\* Lines 243-247: client.files.create(file=open(...), purpose="batch").  The
\* handle is opened for the call and never closed by the program; whether the
\* interpreter has finalized it by the time the call is over is its choice.
FilesCreate ==
    /\ pc = "upload"
    /\ uploads' = uploads + 1
    /\ \E finalized \in BOOLEAN : payloadHandle' = IF finalized THEN "closed" ELSE "open"
    /\ \/ /\ End("error", "UploadError")
          /\ UNCHANGED <<file_id, remoteFiles>>
       \/ \E id \in FileIds :
             /\ remoteFiles' = remoteFiles \cup {id}
             /\ file_id' = id
             /\ pc' = "create"
             /\ UNCHANGED <<outcome, error>>
    /\ UNCHANGED <<widgets, classification_system, saved, df, jsonl_content, localFiles,
                   batch_id, jobs, polls, fetches, sleepsSincePoll, status, output_file_id, results,
                   result_df>>

\* A job created on a fixed handle instead of the one the upload returned.
InputFileIdStale(id) == "file-1"

\* Line 252: input_file_id=file_id
InputFileId(id) == id

\* Lines 251-256: client.batches.create(...)
BatchesCreate ==
    /\ pc = "create"
    /\ \/ /\ End("error", "JobCreationError")
          /\ UNCHANGED <<jobs, batch_id>>
       \/ /\ jobs' = Append(jobs, [id |-> "batch-1", input_file_id |-> InputFileId(file_id)])
          /\ batch_id' = "batch-1"
          /\ pc' = "poll"
          /\ UNCHANGED <<outcome, error>>
    /\ UNCHANGED <<widgets, classification_system, saved, df, jsonl_content, localFiles,
                   payloadHandle, file_id, remoteFiles, uploads, polls, fetches, sleepsSincePoll,
                   status, output_file_id, results, result_df>>

\* A loop without its sleep.
PollBranchBusy(s) ==
    IF s = "completed" THEN "fetch"
    ELSE IF s \in {"failed", "expired", "cancelled"} THEN "done"
    ELSE "poll"

\* A loop that takes a failed job for a finished one.
PollBranchFetchFailed(s) ==
    IF s \in {"completed", "failed"} THEN "fetch"
    ELSE IF s \in {"expired", "cancelled"} THEN "done"
    ELSE "sleep"

\* A loop that resubmits the batch when the job has failed.
PollBranchRetry(s) ==
    IF s = "completed" THEN "fetch"
    ELSE IF s \in {"failed", "expired", "cancelled"} THEN "upload"
    ELSE "sleep"

\* Lines 266-272: where the loop goes on a status.
PollBranch(s) ==
    IF s = "completed" THEN "fetch"
    ELSE IF s \in FailureStatuses THEN "done"
    ELSE "sleep"

\* Line 263 and the branch on its result.  polls counts the queries up to MaxPolls.
BatchesRetrieve ==
    /\ pc = "poll"
    /\ polls' = IF polls < MaxPolls THEN polls + 1 ELSE polls
    /\ sleepsSincePoll' = 0
    /\ \/ /\ End("error", "RetrieveError")
          /\ UNCHANGED <<status, output_file_id>>
       \/ \E s \in Statuses :
             /\ status' = s
             /\ output_file_id' = IF s = "completed" THEN "file-out" ELSE "none"
             /\ IF PollBranch(s) = "done"
                THEN End("job_failed", "")
                ELSE pc' = PollBranch(s) /\ UNCHANGED <<outcome, error>>
    /\ UNCHANGED <<widgets, classification_system, saved, df, jsonl_content, localFiles,
                   payloadHandle, file_id, batch_id, remoteFiles, jobs, uploads, fetches, results,
                   result_df>>

\* Line 272: time.sleep(5)
Sleep ==
    /\ pc = "sleep"
    /\ sleepsSincePoll' = sleepsSincePoll + 1
    /\ pc' = "poll"
    /\ UNCHANGED <<widgets, classification_system, saved, df, jsonl_content, localFiles,
                   payloadHandle, file_id, batch_id, remoteFiles, jobs, uploads, polls, fetches,
                   status, output_file_id, results, result_df, outcome, error>>

\* The lines a completed job may return for the requests submitted: any
\* order, with custom_ids repeated or left out.
ResultLines ==
    SeqsUpTo({[custom_id |-> CustomId(k)] : k \in 0..(Len(jsonl_content) - 1)}, MaxLines)

\* Line 276: client.files.content(status.output_file_id)
FilesContent ==
    /\ pc = "fetch"
    /\ fetches' = fetches + 1
    /\ \/ /\ End("error", "DownloadError")
          /\ UNCHANGED results
       \/ \E lines \in ResultLines :
             /\ results' = lines
             /\ pc' = "store"
             /\ UNCHANGED <<outcome, error>>
    /\ UNCHANGED <<widgets, classification_system, saved, df, jsonl_content, localFiles,
                   payloadHandle, file_id, batch_id, remoteFiles, jobs, uploads, polls,
                   sleepsSincePoll, status, output_file_id, result_df>>

\* Line 277: content.write_to_file("batch_results.jsonl")
WriteResults ==
    /\ pc = "store"
    /\ localFiles' = localFiles \cup {"batch_results.jsonl"}
    /\ pc' = "process"
    /\ UNCHANGED <<widgets, classification_system, saved, df, jsonl_content, payloadHandle,
                   file_id, batch_id, remoteFiles, jobs, uploads, polls, fetches, sleepsSincePoll,
                   status, output_file_id, results, result_df, outcome, error>>

\* Lines 279-290: the output is read back, parsed and paired with the sheet.
ProcessResults ==
    /\ pc = "process"
    /\ LET parsed == process_batch_results(results)
           table == DataFrame(df, parsed.lines)
       IN  IF ~parsed.ok THEN End("error", parsed.err) /\ UNCHANGED result_df
           ELSE IF ~table.ok THEN End("error", table.err) /\ UNCHANGED result_df
           ELSE End("shown", "") /\ result_df' = [built |-> TRUE, rows |-> table.lines]
    /\ UNCHANGED <<widgets, classification_system, saved, df, jsonl_content, localFiles,
                   payloadHandle, file_id, batch_id, remoteFiles, jobs, uploads, polls, fetches,
                   sleepsSincePoll, status, output_file_id, results>>

Next ==
    \/ LoadTaxonomy
    \/ SaveTaxonomy
    \/ ReadExcel
    \/ CreateBatch
    \/ WriteTempFile
    \/ FilesCreate
    \/ BatchesCreate
    \/ BatchesRetrieve
    \/ Sleep
    \/ FilesContent
    \/ WriteResults
    \/ ProcessResults

Spec == Init /\ [][Next]_vars

\* The interpreter keeps executing the script: a step that can be taken is taken.
FairSpec == Spec /\ WF_vars(Next)

\* ------------------------------------------------------------ the claims
\* The vocabulary of the claims: trimming, blank texts, the owed table entry.
RECURSIVE LStrip(_)
LStrip(t) == IF t # << >> /\ Head(t) = " " THEN LStrip(Tail(t)) ELSE t
RECURSIVE RStrip(_)
RStrip(t) == IF t # << >> /\ t[Len(t)] = " " THEN RStrip(SubSeq(t, 1, Len(t) - 1)) ELSE t
\* The text trimmed of white space at both ends, and whether nothing is left.
Strip(t) == RStrip(LStrip(t))
Blank(t) == Strip(t) = << >>

\* The entry the table owes row i (1-based): the returned result whose
\* custom_id names the row, or a placeholder.
Reconciled(i) ==
    IF Blank(df[i]) THEN [custom_id |-> "skipped"]
    ELSE IF \E j \in 1..Len(results) : results[j].custom_id = <<"request-">> \o IntToStr(i - 1)
    THEN results[CHOOSE j \in 1..Len(results) :
                     results[j].custom_id = <<"request-">> \o IntToStr(i - 1)]
    ELSE [custom_id |-> "missing"]

\* C1: once the output of a completed job has been downloaded and the run is
\* over, there is a result table with exactly one entry per input record,
\* and entry i is the result whose custom_id is "request-i" or a placeholder.
C1_TablePerInputRecord ==
    (pc = "done" /\ status = "completed" /\ "batch_results.jsonl" \in localFiles) =>
        /\ result_df.built
        /\ Len(result_df.rows) = Len(df)
        /\ \A i \in 1..Len(df) :
              /\ result_df.rows[i].abstract = df[i]
              /\ result_df.rows[i].result.custom_id = Reconciled(i).custom_id

\* C2: no request is emitted for a record whose text is blank after trimming,
\* and every such record is in the result table marked skipped.
C2_BlankNeverSubmitted ==
    /\ \A j \in 1..Len(jsonl_content) : ~Blank(jsonl_content[j].abstract)
    /\ result_df.built =>
          \A i \in 1..Len(df) : Blank(df[i]) => result_df.rows[i].result.custom_id = "skipped"

\* C3: every emitted request carries custom_id "request-<k>", k the 0-based
\* position of its record in the full input sequence, and no two emitted
\* requests share a custom_id.
C3_CustomIdIsOriginalIndex ==
    \A j \in 1..Len(jsonl_content) :
        LET r == jsonl_content[j]
        IN  /\ r.row \in 0..(Len(df) - 1)
            /\ r.abstract = df[r.row + 1]
            /\ r.custom_id = <<"request-">> \o IntToStr(r.row)
            /\ \A j2 \in 1..Len(jsonl_content) :
                  jsonl_content[j2].custom_id = r.custom_id => j2 = j

\* Three rows, the second blank, all written: the third is still request-2.
C3_Witness ==
    /\ pc = "upload"
    /\ Len(df) = 3 /\ Blank(df[2]) /\ ~Blank(df[3])
    /\ \E j \in 1..Len(jsonl_content) :
          jsonl_content[j].abstract = df[3] /\ jsonl_content[j].custom_id = <<"request-", "2">>

\* C4: the output is fetched only after a poll has returned completed; a
\* poll that returns failed, expired or cancelled ends the run in failure at
\* that poll, with no fetch and no result table.
C4_FetchOnlyAfterCompleted ==
    /\ (fetches > 0 \/ results # << >> \/ "batch_results.jsonl" \in localFiles \/ result_df.built)
          => status = "completed"
    /\ status \in FailureStatuses =>
          /\ pc = "done" /\ outcome = "job_failed"
          /\ fetches = 0 /\ ~result_df.built

\* The fourth poll returns failed after three polls that did not end the loop.
C4_Witness ==
    polls = 4 /\ status = "failed" /\ pc = "done" /\ outcome = "job_failed" /\ fetches = 0

\* C5: the poll loop always terminates: every run ends, by a terminal status
\* or by a timeout.
C5_PollLoopTerminates == <>(pc = "done")

\* C6: between two consecutive status queries there is exactly one sleep,
\* and there is no sleep after a terminal status.
C6_OneSleepBetweenPolls ==
    /\ sleepsSincePoll <= 1
    /\ (pc = "poll" /\ polls > 0) => sleepsSincePoll = 1
    /\ pc = "sleep" => sleepsSincePoll = 0
    /\ status \in FailureStatuses \cup {"completed"} => sleepsSincePoll = 0 /\ pc # "sleep"

\* About to query a third time, one sleep after the second query.
C6_Witness ==
    pc = "poll" /\ polls = 2 /\ sleepsSincePoll = 1 /\ status = "running"

\* C7: the upload completes before the job is created, the job references
\* the handle the upload returned, the first poll follows a successful job
\* creation; a failed upload creates no job, a failed job creation is
\* followed by no poll and no fetch, and the run ends in an error.
C7_SubmissionOrdered ==
    /\ jobs # << >> =>
          /\ uploads = 1
          /\ remoteFiles = {file_id}
          /\ \A j \in 1..Len(jobs) : jobs[j].input_file_id \in remoteFiles
    /\ (polls > 0 \/ pc \in {"poll", "sleep"}) => Len(jobs) = 1 /\ batch_id = jobs[1].id
    /\ error = "UploadError" =>
          jobs = << >> /\ polls = 0 /\ fetches = 0 /\ pc = "done" /\ outcome = "error"
    /\ error = "JobCreationError" =>
          jobs = << >> /\ polls = 0 /\ fetches = 0 /\ pc = "done" /\ outcome = "error"

\* A job created on the second handle the service may return, then polled.
C7_Witness ==
    /\ polls > 0
    /\ file_id = "file-2"
    /\ Len(jobs) = 1 /\ jobs[1].input_file_id = "file-2"

\* C8: at most one upload and one job per run, and once a poll has returned
\* a failure status or the run has ended, nothing more is uploaded, created
\* or polled.
C8_SingleJobNoRetry ==
    [][ /\ Len(jobs') <= 1
        /\ uploads' <= 1
        /\ (status \in FailureStatuses \/ outcome # "") =>
              UNCHANGED <<uploads, remoteFiles, jobs, polls, fetches>> ]_vars

\* A run that ended on an expired job, with its one upload and one job.
C8_Witness ==
    pc = "done" /\ status = "expired" /\ uploads = 1 /\ Len(jobs) = 1 /\ polls = 2

RECURSIVE MalformedTaxonomy(_)
\* Some node of the document lacks its description or has children that are
\* not an object.
MalformedTaxonomy(d) ==
    /\ d.kind = "object"
    /\ \E i \in 1..Len(d.members) :
          LET v == d.members[i][2]
          IN  \/ v.kind # "object"
              \/ ~HasKey(v, "description")
              \/ /\ HasKey(v, "children")
                 /\ \/ GetKey(v, "children").kind # "object"
                    \/ MalformedTaxonomy(GetKey(v, "children"))

\* C9: a malformed uploaded taxonomy is discarded when it is loaded, and a
\* run with it uploads no payload and creates no job.
C9_MalformedNeverUsed ==
    (config_file.kind = "json" /\ MalformedTaxonomy(config_file.doc)) =>
        /\ pc # "load" => classification_system = JNull
        /\ uploads = 0
        /\ jobs = << >>

\* C10: when the run is over the handle on the payload file is closed and
\* no temporary file is left in the working directory.
C10_ResourcesReleased ==
    pc = "done" => payloadHandle # "open" /\ localFiles = {}
====
